---- MODULE Spec2Model ----
(***************************************************************************)
(* A model of core/crawlers/amazon.py: crawl(url), the three-tier image    *)
(* pipeline inside it, product_direct_details(url) and download_image /    *)
(* sanitize_filename.  The page and the network are the environment: what  *)
(* a selector finds, whether a call raises and whether a download answers  *)
(* 200 are chosen nondeterministically.                                    *)
(***************************************************************************)
EXTENDS Integers, Sequences, FiniteSets, TLC

VARIABLES
    pc,               \* position of the running function
    browser,          \* "none" | "open" | "closed" (browser.close() returned)
    close_calls,      \* number of times browser.close() was called
    page,             \* the page content fixed for the run: details table, image sources
    data,             \* crawl: the record being filled (a mapping key -> value)
    sel,              \* crawl: index of the current loop (selector, bullet, row, image)
    img_counter,      \* crawl: img_counter
    downloaded_urls,  \* crawl: downloaded_urls
    ran,              \* history: field operations that were started
    failed,           \* history: field operations in which an exception was raised
    entered,          \* history: image tiers entered after the popover tier
    gate_count,       \* history: images collected when a tier's gate was evaluated
    calls,            \* history: urls passed to download_image
    callers,          \* history: image tiers that called download_image
    popover_ok,       \* history: paths download_image returned to the popover tier
    json_str,         \* history: the text handed to json.loads (<<>>: not called)
    repeated,         \* history: urls passed to download_image more than once
    details,          \* product_direct_details: the mapping being filled
    dl                \* download_image: its arguments and the file it wrote

vars == <<pc, browser, close_calls, page, data, sel, img_counter, downloaded_urls,
          ran, failed, entered, gate_count, calls, callers, popover_ok, json_str, repeated, details, dl>>

crawlVars == <<data, sel, img_counter, downloaded_urls, ran, failed, entered,
               gate_count, calls, callers, popover_ok, json_str, repeated>>

\* Python's None, kept a string so that it compares with the field values.
None == "<None>"

----------------------------------------------------------------------------
(* Bounds of the environment.                                              *)

MaxBullets == 2      \* bullet points on the page
MaxRows == 2         \* rows of the tech-spec tables
MaxTableRows == 2    \* rows of the extra details table
MaxPopover == 3      \* thumbnails in the popover
MaxJson == 1         \* entries of the embedded colorImages array
MaxThumbs == 1       \* thumbnails under #altImages

----------------------------------------------------------------------------
(* crawl: the record.                                                      *)

FixedKeys == {"url", "title", "mrp", "quantity", "manufacturer", "origin", "images"}

TheUrl == "https://www.amazon.in/dp/B0TEST"

\* The value under "images": the list crawl starts with, or the text a row of
\* the details table labelled "images" puts in its place.
ListValue(items) == [list |-> TRUE, items |-> items, text |-> ""]

TextValue(t) == [list |-> FALSE, items |-> <<>>, text |-> t]

EmptyData ==
    [k \in FixedKeys |->
        IF k = "url" THEN TheUrl ELSE IF k = "images" THEN ListValue(<<>>) ELSE None]

\* data[key] = value
SetKey(d, key, value) ==
    (key :> IF key = "images" THEN TextValue(value) ELSE value) @@ d

\* str.strip() on the texts the page can hold.
Strip(t) ==
    CASE t = " Net Quantity " -> "Net Quantity"
      [] t = "300g\n" -> "300g"
      [] t = "  Widget " -> "Widget"
      [] OTHER -> t

Ops == <<"title", "price", "quantity", "manufacturer", "extras", "images">>

OpIndex(o) == CHOOSE k \in 1..Len(Ops) : Ops[k] = o

----------------------------------------------------------------------------
(* The page.                                                               *)

\* A row of table.a-normal.a-spacing-micro: the texts of its td cells, and
\* whether reading the row raises.
TableRow(cells, ok) == [cells |-> cells, ok |-> ok]

TableRowKinds ==
    { TableRow(<<"Net Quantity", "300g">>, TRUE),
      TableRow(<<" Net Quantity ", "300g\n">>, TRUE),
      TableRow(<<"Brand", "Acme">>, TRUE),
      TableRow(<<"title", "Other">>, TRUE),
      TableRow(<<"images", "Gallery">>, TRUE),
      TableRow(<<"Brand">>, TRUE),
      TableRow(<<>>, FALSE) }

RowSeqs(S, n) == UNION { [1..k -> S] : k \in 0..n }

\* found: "absent" (query_selector returns None), "raise" (the query raises),
\* "present".
Tables ==
    { [found |-> f, rows |-> <<>>] : f \in {"absent", "raise"} }
    \cup { [found |-> "present", rows |-> r] : r \in RowSeqs(TableRowKinds, MaxTableRows) }

\* An image URL: the image id of its path and the shape of the rest.
\*   "SL1500"  https://m.media-amazon.com/images/I/<id>.SL1500.jpg
\*   "thumb"   https://m.media-amazon.com/images/I/<id>.SX38_SY50_CR,0,0,38,50.jpg
\*   "usx"     https://m.media-amazon.com/images/I/<id>._SX300_.SY88.jpg
\*   "usx_hi"  https://m.media-amazon.com/images/I/<id>._SX300_.SL1500.jpg
\*   "gif"     https://m.media-amazon.com/images/I/<id>.SL1500.gif
\*   "icon"    https://m.media-amazon.com/images/I/<id>.icon.SL1500.jpg
\*   "ext"     https://cdn.example.com/img/<id>.jpg
Url(id, form) == [id |-> id, form |-> form]

Forms == {"SL1500", "thumb", "usx", "usx_hi", "gif", "icon", "ext"}

\* "gif" in src.lower()
HasGif(u) == u.form = "gif"

\* "icon" in src.lower()
HasIcon(u) == u.form = "icon"

----------------------------------------------------------------------------
(* crawl: browser life cycle, lines 46-56 and 231-237.                     *)

\* p.chromium.launch(): outside any try.
Launch ==
    /\ pc = "launch"
    /\ \E ok \in BOOLEAN :
         IF ok THEN browser' = "open" /\ pc' = "new_context"
               ELSE browser' = browser /\ pc' = "raised"
    /\ UNCHANGED <<close_calls, page, crawlVars, details, dl>>

\* browser.new_context(): after the launch, before the try.
NewContext ==
    /\ pc = "new_context"
    /\ \E ok \in BOOLEAN : pc' = IF ok THEN "new_page" ELSE "raised"
    /\ UNCHANGED <<browser, close_calls, page, crawlVars, details, dl>>

\* context.new_page(): before the try.
NewPage ==
    /\ pc = "new_page"
    /\ \E ok \in BOOLEAN : pc' = IF ok THEN "goto" ELSE "raised"
    /\ UNCHANGED <<browser, close_calls, page, crawlVars, details, dl>>

\* page.goto(): first statement of the try; a failure goes to the outer except.
Goto ==
    /\ pc = "goto"
    /\ \E ok \in BOOLEAN : pc' = IF ok THEN "title" ELSE "close"
    /\ UNCHANGED <<browser, close_calls, page, crawlVars, details, dl>>

\* finally: browser.close(); then return data.  A close() that raises
\* propagates out of the finally block.
Close ==
    /\ pc = "close"
    /\ close_calls' = close_calls + 1
    /\ \E ok \in BOOLEAN :
         IF ok THEN browser' = "closed" /\ pc' = "done"
               ELSE browser' = browser /\ pc' = "raised"
    /\ UNCHANGED <<page, crawlVars, details, dl>>

----------------------------------------------------------------------------
(* crawl: the field operations, lines 58-111.                              *)

TitleTexts == {"Widget", "  Widget "}

\* Title: query, inner_text, strip, all inside one try/except: pass.
\* An absent element makes None.inner_text() raise, which is swallowed too.
Title ==
    /\ pc = "title"
    /\ ran' = ran \cup {"title"}
    /\ \/ \E t \in TitleTexts :
            /\ data' = SetKey(data, "title", Strip(t))
            /\ failed' = failed
       \/ /\ data' = data
          /\ failed' = failed \cup {"title"}
    /\ pc' = "price"
    /\ sel' = 1
    /\ UNCHANGED <<browser, close_calls, page, img_counter, downloaded_urls,
                   entered, gate_count, calls, callers, popover_ok, json_str, repeated, details, dl>>

PriceSelectors ==
    <<"#priceblock_ourprice", "#priceblock_dealprice", "span.a-price span.a-offscreen">>

PriceText(i) == IF i = 1 THEN "199" ELSE IF i = 2 THEN "149" ELSE "99"

\* One iteration of the price loop.  The loop has no try of its own: a query
\* or inner_text that raises is caught by the outer except (line 231).
Price ==
    /\ pc = "price"
    /\ ran' = ran \cup {"price"}
    /\ \E r \in {"absent", "found", "raise"} :
         CASE r = "found" ->
                /\ data' = SetKey(data, "mrp", Strip(PriceText(sel)))
                /\ pc' = "quantity" /\ sel' = 1 /\ failed' = failed
           [] r = "absent" ->
                /\ data' = data /\ failed' = failed
                /\ IF sel < Len(PriceSelectors)
                     THEN pc' = pc /\ sel' = sel + 1
                     ELSE pc' = "quantity" /\ sel' = 1
           [] r = "raise" ->
                /\ data' = data /\ sel' = sel
                /\ failed' = failed \cup {"price"}
                /\ pc' = "close"
    /\ UNCHANGED <<browser, close_calls, page, img_counter, downloaded_urls,
                   entered, gate_count, calls, callers, popover_ok, json_str, repeated, details, dl>>

BulletTexts == {"Net weight 250g", "Pack of 2", "2 L bottle"}

\* re.search(r'(\d+(?:\.\d+)?)\s*(g|kg|ml|l|pcs?|pack)', txt, re.IGNORECASE):
\* match.group(0), or None.
QuantityMatch(txt) ==
    CASE txt = "Net weight 250g" -> "250g"
      [] txt = "2 L bottle" -> "2 L"
      [] OTHER -> None

\* Quantity: query_selector_all of the bullets, inside the try of line 72.
Quantity ==
    /\ pc = "quantity"
    /\ ran' = ran \cup {"quantity"}
    /\ \E ok \in BOOLEAN :
         IF ok THEN pc' = "bullets" /\ failed' = failed
               ELSE pc' = "manufacturer" /\ failed' = failed \cup {"quantity"}
    /\ sel' = 1
    /\ UNCHANGED <<browser, close_calls, page, data, img_counter, downloaded_urls,
                   entered, gate_count, calls, callers, popover_ok, json_str, repeated, details, dl>>

\* One iteration of the bullet loop (or its end): first match wins.
Bullet ==
    /\ pc = "bullets"
    /\ \/ /\ pc' = "manufacturer" /\ sel' = 1
          /\ UNCHANGED <<data, failed>>
       \/ /\ sel <= MaxBullets
          /\ \/ \E txt \in BulletTexts :
                  IF QuantityMatch(txt) # None
                    THEN /\ data' = SetKey(data, "quantity", QuantityMatch(txt))
                         /\ pc' = "manufacturer" /\ sel' = 1 /\ failed' = failed
                    ELSE /\ data' = data /\ pc' = pc /\ sel' = sel + 1
                         /\ failed' = failed
             \/ /\ data' = data /\ pc' = "manufacturer" /\ sel' = 1
                /\ failed' = failed \cup {"quantity"}
    /\ UNCHANGED <<browser, close_calls, page, img_counter, downloaded_urls,
                   ran, entered, gate_count, calls, callers, popover_ok, json_str, repeated, details, dl>>

\* A row of the tech-spec tables: th text (None when the row has no th) and
\* td text.
SpecRows ==
    { [th |-> "Manufacturer", td |-> "Acme Co"],
      [th |-> "Country of Origin", td |-> "India"],
      [th |-> "Brand", td |-> "Acme"],
      [th |-> None, td |-> "Acme"] }

\* "manufacturer" in heading, heading = th.inner_text().strip().lower()
IsManufacturer(th) == th = "Manufacturer"

\* "country of origin" in heading
IsOrigin(th) == th = "Country of Origin"

\* Manufacturer / Origin: query_selector_all of the rows, try of line 84.
Manufacturer ==
    /\ pc = "manufacturer"
    /\ ran' = ran \cup {"manufacturer"}
    /\ \E ok \in BOOLEAN :
         IF ok THEN pc' = "rows" /\ failed' = failed
               ELSE pc' = "extras" /\ failed' = failed \cup {"manufacturer"}
    /\ sel' = 1
    /\ UNCHANGED <<browser, close_calls, page, data, img_counter, downloaded_urls,
                   entered, gate_count, calls, callers, popover_ok, json_str, repeated, details, dl>>

\* One iteration of the row loop (or its end): no break, the last row wins; a
\* row without th makes None.inner_text() raise and ends the loop.
SpecRow ==
    /\ pc = "rows"
    /\ \/ /\ pc' = "extras" /\ sel' = 1
          /\ UNCHANGED <<data, failed>>
       \/ /\ sel <= MaxRows
          /\ \E row \in SpecRows :
               IF row.th = None
                 THEN /\ data' = data /\ pc' = "extras" /\ sel' = 1
                      /\ failed' = failed \cup {"manufacturer"}
                 ELSE /\ data' =
                           LET d1 == IF IsManufacturer(row.th)
                                       THEN SetKey(data, "manufacturer", Strip(row.td))
                                       ELSE data
                           IN  IF IsOrigin(row.th)
                                 THEN SetKey(d1, "origin", Strip(row.td))
                                 ELSE d1
                      /\ pc' = pc /\ sel' = sel + 1 /\ failed' = failed
    /\ UNCHANGED <<browser, close_calls, page, img_counter, downloaded_urls,
                   ran, entered, gate_count, calls, callers, popover_ok, json_str, repeated, details, dl>>

\* Extra details: query of table.a-normal.a-spacing-micro, try of line 97.
Extras ==
    /\ pc = "extras"
    /\ ran' = ran \cup {"extras"}
    /\ CASE page.table.found = "present" ->
              pc' = "table_rows" /\ failed' = failed
         [] page.table.found = "absent" ->
              pc' = "net_quantity" /\ failed' = failed
         [] page.table.found = "raise" ->
              pc' = "net_quantity" /\ failed' = failed \cup {"extras"}
    /\ sel' = 1
    /\ UNCHANGED <<browser, close_calls, page, data, img_counter, downloaded_urls,
                   entered, gate_count, calls, callers, popover_ok, json_str, repeated, details, dl>>

\* One row of the details table: data[key] = value for a row of two cells or
\* more, whatever the key; a row that raises ends the loop.
TableRowStep ==
    /\ pc = "table_rows"
    /\ IF sel > Len(page.table.rows)
         THEN /\ pc' = "net_quantity" /\ sel' = 1
              /\ UNCHANGED <<data, failed>>
         ELSE LET row == page.table.rows[sel] IN
              IF ~row.ok
                THEN /\ data' = data /\ pc' = "net_quantity" /\ sel' = 1
                     /\ failed' = failed \cup {"extras"}
                ELSE /\ data' = IF Len(row.cells) >= 2
                                  THEN SetKey(data, Strip(row.cells[1]), Strip(row.cells[2]))
                                  ELSE data
                     /\ pc' = pc /\ sel' = sel + 1 /\ failed' = failed
    /\ UNCHANGED <<browser, close_calls, page, img_counter, downloaded_urls,
                   ran, entered, gate_count, calls, callers, popover_ok, json_str, repeated, details, dl>>

\* if "Net Quantity" in data: data["quantity"] = data["Net Quantity"]
NetQuantity ==
    /\ pc = "net_quantity"
    /\ data' = IF "Net Quantity" \in DOMAIN data
                 THEN SetKey(data, "quantity", data["Net Quantity"])
                 ELSE data
    /\ pc' = "popover"
    /\ sel' = 1
    /\ UNCHANGED <<browser, close_calls, page, img_counter, downloaded_urls,
                   ran, failed, entered, gate_count, calls, callers, popover_ok, json_str, repeated, details, dl>>

----------------------------------------------------------------------------
(* crawl: image extraction, lines 113-229.                                 *)

\* src.replace(".SX38_SY50_CR,0,0,38,50", ".SL1500")
PopoverRewrite(u) == IF u.form = "thumb" THEN Url(u.id, "SL1500") ELSE u

\* re.sub(r'\.S[XY]\d+', '.SL1500', main_src) when "._SX" or "._SY" is in
\* main_src, else main_src.
MainRewrite(u) == IF u.form = "usx" THEN Url(u.id, "usx_hi") ELSE u

\* https://m.media-amazon.com/images/I/{asin}.SL1500.jpg when the path has an
\* /I/ segment, else src.
ThumbRewrite(u) == IF u.form = "ext" THEN u ELSE Url(u.id, "SL1500")

\* The file path download_image returns for a 200 answer.
Path(prefix, n, u) == [prefix |-> prefix, n |-> n, url |-> u]

\* The gate with its threshold two too high: a later tier would still run
\* after three images.
NeedMoreImagesLate(counter) == counter <= 4

\* if img_counter <= 2: the gate of the embedded-JSON tier and of the
\* fallback tier.
NeedMoreImages(counter) == counter <= 2

\* path = download_image(u, TEMP_DIR, prefix); if path: append, add, count.
\* download_image swallows its own exceptions and returns None.  With a path,
\* data["images"].append raises when a table row has replaced the list by a
\* text: the tier's except clause continues at onRaise.  Otherwise the loop
\* goes on at next.
Fetch(tier, u, prefix, n, next, onRaise) ==
    /\ calls' = calls \cup {u}
    /\ callers' = callers \cup {tier}
    /\ repeated' = IF u \in calls THEN repeated \cup {u} ELSE repeated
    /\ \E ok \in BOOLEAN :
         /\ popover_ok' = IF ok /\ tier = "popover" THEN popover_ok + 1 ELSE popover_ok
         /\ IF ok /\ data["images"].list
              THEN /\ data' = [data EXCEPT !["images"] =
                                   ListValue(Append(@.items, Path(prefix, n, u)))]
                   /\ downloaded_urls' = downloaded_urls \cup {u}
                   /\ img_counter' = img_counter + 1
              ELSE UNCHANGED <<data, downloaded_urls, img_counter>>
         /\ pc' = IF ok /\ ~data["images"].list THEN onRaise ELSE next

NoFetch(next) ==
    /\ pc' = next
    /\ UNCHANGED <<calls, callers, popover_ok, repeated, data, downloaded_urls, img_counter>>

\* Entry of the image extraction and of the popover tier: the query of the
\* "4+ more" thumbnail, the click, the waits and the query of the popover
\* images.  Any of them raising is caught at line 144.
PopoverTier ==
    /\ pc = "popover"
    /\ ran' = ran \cup {"images"}
    /\ \E r \in {"absent", "raise", "list"} :
         NoFetch(IF r = "list" THEN "popover_loop" ELSE "json")
    /\ sel' = 1
    /\ UNCHANGED <<browser, close_calls, page, failed, entered, gate_count, json_str,
                   details, dl>>

\* One popover image: the list ends, get_attribute raises, src is None, or
\* src is a URL.
PopoverImage ==
    /\ pc = "popover_loop"
    /\ \/ NoFetch("json")
       \/ /\ sel <= MaxPopover
          /\ \/ NoFetch("json")
             \/ NoFetch(pc)
             \/ \E src \in page.gallery :
                  IF ~HasGif(src) /\ PopoverRewrite(src) \notin downloaded_urls
                    THEN Fetch("popover", PopoverRewrite(src), "popover", sel, pc, "json")
                    ELSE NoFetch(pc)
    /\ sel' = IF pc' = pc THEN sel + 1 ELSE 1
    /\ UNCHANGED <<browser, close_calls, page, ran, failed, entered, gate_count, json_str, details, dl>>

\* The page markup page.content() returns is a sequence of symbols.  A
\* character is Sym(c).  The object {"hiRes": "<u>"} of the colorImages array
\* is written as the one symbol u, an object without hiRes as NoHiRes, and a
\* number as Number.
Sym(c) == [id |-> c, form |-> "char"]

NoHiRes == [id |-> "{}", form |-> "object"]

Number == [id |-> "0", form |-> "number"]

\* start_marker = '"colorImages":{"initial":'
start_marker ==
    LET text == <<"\"", "c", "o", "l", "o", "r", "I", "m", "a", "g", "e", "s", "\"",
                  ":", "{", "\"", "i", "n", "i", "t", "i", "a", "l", "\"", ":">>
    IN  [k \in 1..Len(text) |-> Sym(text[k])]

\* The text of a JSON array with the entries es.
RECURSIVE ArrayItems(_)
ArrayItems(es) ==
    IF es = <<>> THEN <<>>
    ELSE IF Len(es) = 1 THEN es
    ELSE <<Head(es), Sym(",")>> \o ArrayItems(Tail(es))

ArrayText(es) == <<Sym("[")>> \o ArrayItems(es) \o <<Sym("]")>>

\* script_content = page.content(): what precedes the marker, the marker (or
\* nothing), what follows it at once, and the rest.
Content(markup) == markup.before \o markup.marker \o markup.array \o markup.after

\* script_content.find(start_marker), counted from 1; 0 is Python's -1.
Find(script_content, marker) ==
    LET hits == { k \in 1..(Len(script_content) - Len(marker) + 1) :
                    SubSeq(script_content, k, k + Len(marker) - 1) = marker }
    IN  IF hits = {} THEN 0 ELSE CHOOSE k \in hits : \A h \in hits : k <= h

\* The loop of lines 165-172 from position i with bracket_count count: the
\* position after the ']' that brings the count to zero, or start when the
\* markup ends first (end_idx keeps its initial value start_idx).
RECURSIVE BracketScan(_, _, _, _)
BracketScan(script_content, start, i, count) ==
    IF i > Len(script_content) THEN start
    ELSE IF script_content[i] = Sym("[")
           THEN BracketScan(script_content, start, i + 1, count + 1)
    ELSE IF script_content[i] = Sym("]")
           THEN IF count - 1 = 0 THEN i + 1
                ELSE BracketScan(script_content, start, i + 1, count - 1)
    ELSE BracketScan(script_content, start, i + 1, count)

\* json_str of line 175, or <<>> when json.loads is not reached (no marker,
\* or end_idx > start_idx is false).  start_idx += len(start_marker) - 1
\* leaves start_idx on the last character of the marker.
JsonStr(script_content) ==
    LET found == Find(script_content, start_marker)
        start_idx == found + Len(start_marker) - 1
        end_idx == BracketScan(script_content, start_idx, start_idx, 0)
    IN  IF found # 0 /\ end_idx > start_idx
          THEN SubSeq(script_content, start_idx, end_idx - 1)
          ELSE <<>>

\* json.loads: the position after the JSON value that starts at t[i], or 0
\* when there is none.  A value is an object, a number or an array of values
\* separated by commas.
RECURSIVE ValueEnd(_, _)
RECURSIVE ItemsEnd(_, _, _)
ValueEnd(t, i) ==
    IF i > Len(t) THEN 0
    ELSE IF t[i].form # "char" THEN i + 1
    ELSE IF t[i] = Sym("[") THEN ItemsEnd(t, i + 1, TRUE)
    ELSE 0

ItemsEnd(t, i, first) ==
    IF i > Len(t) THEN 0
    ELSE IF first /\ t[i] = Sym("]") THEN i + 1
    ELSE LET e == ValueEnd(t, i)
         IN  IF e = 0 \/ e > Len(t) THEN 0
             ELSE IF t[e] = Sym("]") THEN e + 1
             ELSE IF t[e] = Sym(",") THEN ItemsEnd(t, e + 1, FALSE)
             ELSE 0

\* json.loads(json_str) returns: the whole text is one JSON value.
Loads(text) == text # <<>> /\ ValueEnd(text, 1) = Len(text) + 1

\* The entries "for img_data in color_images" visits, for a text json.loads
\* accepts: the values of the outer array, an inner array written as Sym("[").
\* An object without keys has no entries.  Iterating a number raises, and so
\* does img_data['hiRes'] on the key of an object: one Number entry stands
\* for both.
RECURSIVE Items(_, _)
Items(t, i) ==
    IF t[i] = Sym("]") THEN <<>>
    ELSE IF t[i] = Sym(",") THEN Items(t, i + 1)
    ELSE <<t[i]>> \o Items(t, ValueEnd(t, i))

color_images(text) ==
    IF text[1] = Sym("[") THEN Items(text, 2)
    ELSE IF text[1] = NoHiRes THEN <<>>
    ELSE <<Number>>

\* What the loop of lines 179-185 works on.
LoopState ==
    [data |-> data, downloaded_urls |-> downloaded_urls, img_counter |-> img_counter,
     calls |-> calls, callers |-> callers, repeated |-> repeated]

\* The loop of lines 179-185 over the entries es from st: the states it can
\* end in.  'hiRes' in img_data raises for a number and is false for an inner
\* array; download_image returns a path or None; data["images"].append raises
\* when a table row has replaced the list by a text.  Whatever raises ends the
\* loop (line 186).
RECURSIVE JsonEntries(_, _)
JsonEntries(es, st) ==
    IF es = <<>> THEN {st}
    ELSE LET hires_url == Head(es)
             called == [st EXCEPT !.calls = @ \cup {hires_url},
                                  !.callers = @ \cup {"json"},
                                  !.repeated = IF hires_url \in st.calls
                                                 THEN @ \cup {hires_url} ELSE @]
             stored == [called EXCEPT
                          !.data = [@ EXCEPT !["images"] =
                                      ListValue(Append(@.items,
                                          Path("img", st.img_counter, hires_url)))],
                          !.downloaded_urls = @ \cup {hires_url},
                          !.img_counter = @ + 1]
         IN  IF hires_url = Number THEN {st}
             ELSE IF hires_url \in {NoHiRes, Sym("[")} THEN JsonEntries(Tail(es), st)
             ELSE IF hires_url \in st.downloaded_urls \/ HasGif(hires_url)
                    THEN JsonEntries(Tail(es), st)
             ELSE JsonEntries(Tail(es), called)
                  \cup (IF st.data["images"].list
                          THEN JsonEntries(Tail(es), stored) ELSE {called})

\* The gate of the embedded-JSON tier, then the whole tier: page.content()
\* (which may raise), the marker search, the bracket scan, json.loads and the
\* loop over the entries.  What raises is caught at line 186 or 188.
JsonTier ==
    /\ pc = "json"
    /\ gate_count' = [gate_count EXCEPT !["json"] = Len(data["images"].items)]
    /\ IF NeedMoreImages(img_counter)
         THEN /\ entered' = entered \cup {"json"}
              /\ \/ /\ json_str' = json_str
                    /\ NoFetch("fallback")
                 \/ /\ json_str' = JsonStr(Content(page.markup))
                    /\ IF Loads(json_str')
                         THEN /\ \E st \in JsonEntries(color_images(json_str'), LoopState) :
                                   /\ data' = st.data
                                   /\ downloaded_urls' = st.downloaded_urls
                                   /\ img_counter' = st.img_counter
                                   /\ calls' = st.calls
                                   /\ callers' = st.callers
                                   /\ repeated' = st.repeated
                              /\ pc' = "fallback"
                              /\ popover_ok' = popover_ok
                         ELSE NoFetch("fallback")
         ELSE /\ entered' = entered
              /\ json_str' = json_str
              /\ NoFetch("fallback")
    /\ sel' = 1
    /\ UNCHANGED <<browser, close_calls, page, ran, failed, details, dl>>

\* The gate of the fallback tier, then the main image: the query raises,
\* there is no main image or no src, or src is a URL.  Nothing in this tier
\* has a try of its own: what raises is caught at line 228 and ends the
\* image extraction.
FallbackTier ==
    /\ pc = "fallback"
    /\ gate_count' = [gate_count EXCEPT !["fallback"] = Len(data["images"].items)]
    /\ IF NeedMoreImages(img_counter)
         THEN /\ entered' = entered \cup {"fallback"}
              /\ \/ NoFetch("close")
                 \/ NoFetch("thumbs")
                 \/ \E main_src \in page.gallery :
                      IF main_src \notin downloaded_urls /\ ~HasGif(main_src)
                        THEN Fetch("fallback", MainRewrite(main_src), "img", img_counter,
                                   "thumbs", "close")
                        ELSE NoFetch("thumbs")
         ELSE /\ entered' = entered
              /\ NoFetch("close")
    /\ sel' = 1
    /\ UNCHANGED <<browser, close_calls, page, ran, failed, json_str, details, dl>>

\* One thumbnail of #altImages: the list ends, the query or get_attribute
\* raises, src is None, or src is a URL.
Thumb ==
    /\ pc = "thumbs"
    /\ \/ NoFetch("close")
       \/ /\ sel <= MaxThumbs
          /\ \/ NoFetch("close")
             \/ NoFetch(pc)
             \/ \E src \in page.gallery :
                  IF ~HasIcon(src) /\ ~HasGif(src)
                       /\ ThumbRewrite(src) \notin downloaded_urls
                    THEN Fetch("fallback", ThumbRewrite(src), "img", img_counter, pc, "close")
                    ELSE NoFetch(pc)
    /\ sel' = IF pc' = pc THEN sel + 1 ELSE 1
    /\ UNCHANGED <<browser, close_calls, page, ran, failed, entered, gate_count, json_str, details, dl>>

----------------------------------------------------------------------------
(* Specifications of crawl.                                                *)

NoDetails == <<>>

NoDownload ==
    [state |-> "idle", url |-> <<>>, prefix |-> <<>>, name |-> <<>>, ext |-> <<>>,
     sanitized_name |-> <<>>, filename |-> <<>>]

Gallery ==
    { Url("a", "thumb"), Url("a", "SL1500"), Url("c", "usx"), Url("c", "usx_hi"),
      Url("d", "gif"), Url("b", "icon"), Url("a", "ext") }

CrawlStart ==
    /\ browser = "none"
    /\ close_calls = 0
    /\ data = EmptyData
    /\ sel = 1
    /\ img_counter = 1
    /\ downloaded_urls = {}
    /\ ran = {}
    /\ failed = {}
    /\ entered = {}
    /\ gate_count = [t \in {"json", "fallback"} |-> -1]
    /\ calls = {}
    /\ callers = {}
    /\ popover_ok = 0
    /\ json_str = <<>>
    /\ repeated = {}
    /\ details = NoDetails
    /\ dl = NoDownload

\* Markup with the marker followed at once by the colorImages array.
Marked(array, after) ==
    [before |-> <<Sym("[")>>, marker |-> start_marker, array |-> array, after |-> after]

\* The entries of the colorImages arrays: up to MaxJson of them.
RECURSIVE EntrySeqs(_)
EntrySeqs(n) ==
    IF n = 0 THEN {<<>>}
    ELSE EntrySeqs(n - 1)
         \cup { Append(es, e) : es \in { x \in EntrySeqs(n - 1) : Len(x) = n - 1 },
                                e \in {Url("a", "SL1500"), Url("d", "gif"), NoHiRes} }

\* The markups: without the marker; with the marker and an array of entries,
\* an array holding an array, or an array that is never closed, and with or
\* without a ']' further on.
Markups ==
    { [before |-> <<Sym("[")>>, marker |-> <<>>,
       array |-> ArrayText(<<Url("a", "SL1500")>>), after |-> <<>>] }
    \cup { Marked(array, after) :
             array \in { ArrayText(es) : es \in EntrySeqs(MaxJson) }
                       \cup { <<Sym("["), Url("a", "SL1500"), Sym(",")>>
                                  \o ArrayText(<<>>) \o <<Sym("]")>>,
                              <<Sym("[")>> },
             after \in { <<>>, <<Sym("}"), Sym("]")>> } }

OneImage == Marked(ArrayText(<<Url("a", "SL1500")>>), <<Sym("}")>>)

\* The pages crawl is run on from its first line: every details table on a
\* page without images, and two details tables on a page with one image.
Pages ==
    [table : Tables, gallery : {{}}, markup : {OneImage}]
    \cup [table : {[found |-> "present", rows |-> <<r>>] :
                       r \in {TableRow(<<"Net Quantity", "300g">>, TRUE),
                              TableRow(<<"images", "Gallery">>, TRUE)}},
          gallery : {{Url("a", "thumb")}}, markup : {OneImage}]

Init ==
    /\ pc = "launch"
    /\ page \in Pages
    /\ CrawlStart

FieldActions ==
    \/ Launch \/ NewContext \/ NewPage \/ Goto
    \/ Title \/ Price \/ Quantity \/ Bullet \/ Manufacturer \/ SpecRow
    \/ Extras \/ TableRowStep \/ NetQuantity

ImageActions ==
    \/ PopoverTier \/ PopoverImage \/ JsonTier \/ FallbackTier \/ Thumb

Next == FieldActions \/ ImageActions \/ Close

Spec == Init /\ [][Next]_vars

\* The record when the image extraction starts (line 113) with every field
\* found.
FilledData ==
    [k \in FixedKeys |->
        CASE k = "url" -> TheUrl
          [] k = "images" -> ListValue(<<>>)
          [] k = "title" -> "Widget"
          [] k = "mrp" -> "199"
          [] k = "quantity" -> "250g"
          [] k = "manufacturer" -> "Acme Co"
          [] k = "origin" -> "India"]

\* The pages of the image extraction: every kind of image source with one
\* markup, and every markup with one image source.
ImagePages ==
    [table : {[found |-> "absent", rows |-> <<>>]}, gallery : {Gallery}, markup : {OneImage}]
    \cup [table : {[found |-> "absent", rows |-> <<>>]},
          gallery : {{Url("a", "SL1500")}}, markup : Markups]

\* crawl(url) from the start of the image extraction.
InitImages ==
    /\ pc = "popover"
    /\ page \in ImagePages
    /\ browser = "open"
    /\ close_calls = 0
    /\ data \in {FilledData, SetKey(FilledData, "images", "Gallery")}
    /\ sel = 1
    /\ img_counter = 1
    /\ downloaded_urls = {}
    /\ ran = {"title", "price", "quantity", "manufacturer", "extras"}
    /\ failed = {}
    /\ entered = {}
    /\ gate_count = [t \in {"json", "fallback"} |-> -1]
    /\ calls = {}
    /\ callers = {}
    /\ popover_ok = 0
    /\ json_str = <<>>
    /\ repeated = {}
    /\ details = NoDetails
    /\ dl = NoDownload

NextImages == ImageActions \/ Close

SpecImages == InitImages /\ [][NextImages]_vars

----------------------------------------------------------------------------
(* Properties of crawl.                                                    *)

Finished == pc \in {"done", "raised"}

\* C1: crawl(url) never raises to its caller, whatever fails (launch,
\* new_context, new_page, goto, a query, inner_text, click, a download,
\* browser.close), and the record it returns holds the seven fixed keys.
C1_NeverRaisesAndHasFixedKeys ==
    /\ pc # "raised"
    /\ pc = "done" => FixedKeys \subseteq DOMAIN data

Later(f) == { Ops[k] : k \in (OpIndex(f) + 1)..Len(Ops) }

\* The first row of the details table can be read and has two cells.
FirstTableRowReadable ==
    /\ page.table.found = "present"
    /\ Len(page.table.rows) >= 1
    /\ page.table.rows[1].ok
    /\ Len(page.table.rows[1].cells) >= 2

\* C2: when the page was loaded and crawl has returned, every field operation
\* that comes after an operation in which something raised has run as well,
\* and the first readable row of the details table is in the record.
C2_FailureDoesNotStopLaterOperations ==
    pc = "done" =>
        \A f \in failed :
            /\ Later(f) \subseteq ran
            /\ FirstTableRowReadable =>
                   Strip(page.table.rows[1].cells[1]) \in DOMAIN data

\* C3: once the popover tier has downloaded three images or more, the
\* embedded-JSON tier and the fallback tier are not entered and neither of
\* them calls download_image.
C3_ThreePopoverImagesSkipLaterTiers ==
    popover_ok >= 3 => entered = {} /\ callers \subseteq {"popover"}

\* crawl has returned after the popover tier downloaded three images and both
\* gates were evaluated.
C3_Witness ==
    /\ pc = "done"
    /\ popover_ok >= 3
    /\ gate_count["json"] >= 3
    /\ gate_count["fallback"] >= 3

\* C4: a later tier is entered whenever its gate is reached with 0, 1 or 2
\* images collected by the tiers before it.
C4_LaterTierWheneverFewerThanThree ==
    \A t \in {"json", "fallback"} : gate_count[t] \in 0..2 => t \in entered

\* C5: no URL is passed to download_image more than once within one run.
C5_NoUrlFetchedTwice == repeated = {}

\* The readable two-cell rows of the details table labelled "Net Quantity":
\* the rows the loop of line 101 reaches.
NetQuantityRows ==
    IF page.table.found # "present" THEN {}
    ELSE { k \in 1..Len(page.table.rows) :
             /\ \A j \in 1..k : page.table.rows[j].ok
             /\ Len(page.table.rows[k].cells) >= 2
             /\ Strip(page.table.rows[k].cells[1]) = "Net Quantity" }

\* C6: when the page was loaded and its details table has a row
\* "Net Quantity" = v, the record crawl returns has quantity = v, whatever
\* the title, price, bullet and manufacturer operations met.
C6_NetQuantityAlwaysWins ==
    (pc = "done" /\ "title" \in ran) =>
        \A k \in NetQuantityRows :
            data["quantity"] = Strip(page.table.rows[k].cells[2])

\* C9: once the browser has been launched, browser.close() has been called
\* when crawl returns or raises.
C9_LaunchedBrowserIsClosed ==
    (Finished /\ browser # "none") => close_calls >= 1

\* The markup holds the marker followed at once by a bracket-balanced array.
MarkerThenArray ==
    /\ page.markup.marker = start_marker
    /\ page.markup.array[1] = Sym("[")
    /\ ValueEnd(page.markup.array, 1) = Len(page.markup.array) + 1

\* The hiRes URLs of the entries of that array that are no gif.
HiResUrls ==
    { u \in { page.markup.array[k] : k \in 1..Len(page.markup.array) } :
        u.form \notin {"char", "object", "number"} /\ ~HasGif(u) }

\* C11: when the markup holds the marker followed at once by a
\* bracket-balanced array, the text handed to json.loads is exactly that
\* array, and every hiRes URL of its entries that is no gif has been passed
\* to download_image (by this tier, or before it when already downloaded).
C11_ParserGetsTheArray ==
    (MarkerThenArray /\ json_str # <<>>) =>
        /\ json_str = page.markup.array
        /\ data["images"].list => HiResUrls \subseteq calls

----------------------------------------------------------------------------
(* product_direct_details, lines 240-390.  A text is a sequence of          *)
(* characters; "RLM" is U+200F and "LRM" is U+200E.                         *)

MaxItems == 2        \* items of a region (list items, table rows)

Whitespace == {" "}

\* Of the characters re.sub(r'[:\u200f\u200e\u2060\u202a\u202c]', '', label)
\* removes, the ones the texts here hold.
LabelJunk == {":", "RLM", "LRM"}

\* Of the characters re.sub(r'[\u200f\u200e\u2060\u202a\u202c]', '', value)
\* removes, the ones the texts here hold.
BidiMarks == {"RLM", "LRM"}

\* The placeholder the extractor compares a value with (lines 280 and 298).
Placeholder == <<"RLM">>

RECURSIVE LStrip(_)
LStrip(t) == IF t # <<>> /\ Head(t) \in Whitespace THEN LStrip(Tail(t)) ELSE t

RECURSIVE RStrip(_)
RStrip(t) ==
    IF t # <<>> /\ t[Len(t)] \in Whitespace THEN RStrip(SubSeq(t, 1, Len(t) - 1)) ELSE t

\* str.strip(): U+200F and U+200E are no whitespace.
StripText(t) == RStrip(LStrip(t))

Remove(t, junk) == SelectSeq(t, LAMBDA c : c \notin junk)

\* label = re.sub(..., '', label).strip(), label the stripped inner text
CleanLabel(raw) == StripText(Remove(StripText(raw), LabelJunk))

\* value = re.sub(..., '', value).strip()
CleanValue(v) == StripText(Remove(v, BidiMarks))

Contains(t, c) == \E k \in 1..Len(t) : t[k] = c

FirstIndex(t, c) == CHOOSE k \in 1..Len(t) : t[k] = c /\ \A j \in 1..(k - 1) : t[j] # c

\* text_content.split(":", 1)
SplitColon(t) ==
    <<SubSeq(t, 1, FirstIndex(t, ":") - 1), SubSeq(t, FirstIndex(t, ":") + 1, Len(t))>>

RawLabels ==
    { <<"L">>, <<"L", " ", "RLM", " ", ":", " ", "LRM">>, <<"M", ":">>, <<":">> }

RawValues == { <<"v">>, <<" ", "w", " ">>, <<"RLM">>, <<>> }

RawLines ==
    { <<"L", " ", "RLM", ":", "LRM", " ", "v">>, <<"M", ":", "RLM">>,
      <<"M", "RLM", ":", "w">>, <<"L", ":", "v">>, <<"RLM", "v">> }

\* details[label] = value
Store(d, label, value) == (label :> value) @@ d

\* A list item with two spans or more, lines 268-282.
SpanItem(d, rawLabel, rawValue) ==
    LET label == CleanLabel(rawLabel)
        value == StripText(rawValue)
    IN  IF label # <<>> /\ value # <<>> /\ value # Placeholder
          THEN Store(d, label, value)
          ELSE d

\* A list item without two spans, lines 285-300.
ColonItem(d, rawLine) ==
    LET text_content == StripText(rawLine) IN
    IF Contains(text_content, ":") /\ Contains(text_content, "RLM")
      THEN LET parts == SplitColon(text_content)
               label == CleanLabel(parts[1])
               value == CleanValue(StripText(parts[2]))
           IN  IF label # <<>> /\ value # <<>> /\ value # Placeholder
                 THEN Store(d, label, value)
                 ELSE d
      ELSE d

\* A row with a th and a td, lines 320-329.
ThTdRow(d, rawLabel, rawValue) ==
    LET label == CleanLabel(rawLabel)
        value == StripText(rawValue)
    IN  IF label # <<>> /\ value # <<>> THEN Store(d, label, value) ELSE d

\* A row of an expander table with two td or more, lines 346-355 and 367-376.
ExpanderRow(d, rawLabel, rawValue) ==
    LET label == CleanLabel(rawLabel)
        value == StripText(rawValue)
    IN  IF label # <<>> /\ value # <<>> /\ label \notin DOMAIN d
          THEN Store(d, label, value)
          ELSE d

detailVars == <<page, crawlVars, dl>>

\* p.firefox.launch(), browser.new_context(), context.new_page(): all three
\* before the try.
DetailsLaunch ==
    /\ pc = "d_launch"
    /\ \E ok \in BOOLEAN :
         IF ok THEN browser' = "open" /\ pc' = "d_new_context"
               ELSE browser' = browser /\ pc' = "d_raised"
    /\ UNCHANGED <<close_calls, details, detailVars>>

DetailsNewContext ==
    /\ pc = "d_new_context"
    /\ \E ok \in BOOLEAN : pc' = IF ok THEN "d_new_page" ELSE "d_raised"
    /\ UNCHANGED <<browser, close_calls, details, detailVars>>

DetailsNewPage ==
    /\ pc = "d_new_page"
    /\ \E ok \in BOOLEAN : pc' = IF ok THEN "d_goto" ELSE "d_raised"
    /\ UNCHANGED <<browser, close_calls, details, detailVars>>

DetailsGoto ==
    /\ pc = "d_goto"
    /\ \E ok \in BOOLEAN : pc' = IF ok THEN "d_bullets" ELSE "d_close"
    /\ UNCHANGED <<browser, close_calls, details, detailVars>>

\* The query of a region: found, absent, or raising (caught by the try
\* around the region, which continues at onRaise).
Region(loop, after, onRaise) ==
    /\ \E r \in {"found", "absent", "raise"} :
         pc' = IF r = "found" THEN loop ELSE IF r = "absent" THEN after ELSE onRaise
    /\ sel' = 1
    /\ UNCHANGED <<browser, close_calls, details, page, data, img_counter,
                   downloaded_urls, ran, failed, entered, gate_count, calls,
                   callers, popover_ok, json_str, repeated, dl>>

\* One item of a region (or the end of the region): the item raises and is
\* skipped, or it is handled, which leaves one of the mappings in results.
RegionItem(after, results) ==
    /\ \/ /\ pc' = after /\ sel' = 1 /\ details' = details
       \/ /\ sel <= MaxItems
          /\ pc' = pc /\ sel' = sel + 1
          /\ \/ details' = details
             \/ details' \in results
    /\ UNCHANGED <<browser, close_calls, page, data, img_counter,
                   downloaded_urls, ran, failed, entered, gate_count, calls,
                   callers, popover_ok, json_str, repeated, dl>>

DetailBullets ==
    /\ pc = "d_bullets"
    /\ Region("d_bullet_loop", "d_table", "d_table")

\* One li of #detailBullets_feature_div: two spans, or colon-split text.
DetailBulletItem ==
    /\ pc = "d_bullet_loop"
    /\ \/ RegionItem("d_table", { SpanItem(details, l, v) : l \in RawLabels, v \in RawValues })
       \/ /\ sel <= MaxItems
          /\ pc' = pc /\ sel' = sel + 1
          /\ \E line \in RawLines : details' = ColonItem(details, line)
          /\ UNCHANGED <<browser, close_calls, page, data, img_counter,
                         downloaded_urls, ran, failed, entered, gate_count, calls,
                         callers, popover_ok, json_str, repeated, dl>>

\* query_selector_all of the th/td rows: a list (possibly empty) or raising.
DetailTable ==
    /\ pc = "d_table"
    /\ Region("d_table_loop", "d_left", "d_left")

DetailTableRow ==
    /\ pc = "d_table_loop"
    /\ RegionItem("d_left", { ThTdRow(details, l, v) : l \in RawLabels, v \in RawValues })

\* The two expander sections share one try (line 337): a query that raises
\* in the left one skips the right one.
DetailLeft ==
    /\ pc = "d_left"
    /\ Region("d_left_loop", "d_right", "d_close")

DetailLeftRow ==
    /\ pc = "d_left_loop"
    /\ RegionItem("d_right", { ExpanderRow(details, l, v) : l \in RawLabels, v \in RawValues })

DetailRight ==
    /\ pc = "d_right"
    /\ Region("d_right_loop", "d_close", "d_close")

DetailRightRow ==
    /\ pc = "d_right_loop"
    /\ RegionItem("d_close", { ExpanderRow(details, l, v) : l \in RawLabels, v \in RawValues })

\* finally: browser.close(); then return details.
DetailsClose ==
    /\ pc = "d_close"
    /\ close_calls' = close_calls + 1
    /\ \E ok \in BOOLEAN :
         IF ok THEN browser' = "closed" /\ pc' = "d_done"
               ELSE browser' = browser /\ pc' = "d_raised"
    /\ UNCHANGED <<details, detailVars>>

InitDetails ==
    /\ pc = "d_launch"
    /\ page = [table |-> [found |-> "absent", rows |-> <<>>], gallery |-> {}]
    /\ CrawlStart

NextDetails ==
    \/ DetailsLaunch \/ DetailsNewContext \/ DetailsNewPage \/ DetailsGoto
    \/ DetailBullets \/ DetailBulletItem \/ DetailTable \/ DetailTableRow
    \/ DetailLeft \/ DetailLeftRow \/ DetailRight \/ DetailRightRow
    \/ DetailsClose

SpecDetails == InitDetails /\ [][NextDetails]_vars

\* C7: a label once stored keeps its value: no later item of the same region
\* or of a later region changes it.
C7_FirstWriteWins ==
    [][\A l \in DOMAIN details : l \in DOMAIN details' /\ details'[l] = details[l]]_vars

\* C8: no entry of the mapping has the lone U+200F as its value.
C8_NoPlaceholderValue ==
    \A l \in DOMAIN details : details[l] # Placeholder

----------------------------------------------------------------------------
(* download_image and sanitize_filename, lines 14-32.  A string is a        *)
(* sequence of characters.                                                  *)

MaxHead == 2         \* characters chosen freely at the start of a file name

FilenameLimit == 100

Lower ==
    {"a", "b", "c", "d", "e", "f", "g", "h", "i", "j", "k", "l", "m",
     "n", "o", "p", "q", "r", "s", "t", "u", "v", "w", "x", "y", "z"}

Upper ==
    {"A", "B", "C", "D", "E", "F", "G", "H", "I", "J", "K", "L", "M",
     "N", "O", "P", "Q", "R", "S", "T", "U", "V", "W", "X", "Y", "Z"}

Digits == {"0", "1", "2", "3", "4", "5", "6", "7", "8", "9"}

\* The characters the class [^a-zA-Z0-9_-] does not match.
Kept(c) == c \in Lower \cup Upper \cup Digits \cup {"_", "-"}

\* name[:n]
Truncate(t, n) == IF Len(t) > n THEN SubSeq(t, 1, n) ELSE t

\* The substitution without the [:100].
sanitize_filename_untruncated(name) ==
    [k \in 1..Len(name) |-> IF Kept(name[k]) THEN name[k] ELSE "_"]

\* re.sub(r'[^a-zA-Z0-9_-]', '_', name)[:100]
sanitize_filename(name) ==
    Truncate([k \in 1..Len(name) |-> IF Kept(name[k]) THEN name[k] ELSE "_"],
             FilenameLimit)

\* t.rfind(c) + 1: the last position of c in t, 0 when there is none.
LastIndex(t, c) ==
    IF Contains(t, c)
      THEN CHOOSE k \in 1..Len(t) : t[k] = c /\ \A j \in (k + 1)..Len(t) : t[j] # c
      ELSE 0

\* urlparse(url).path of a URL given from its path on: what comes before the
\* first "?" or "#".
UrlPath(u) ==
    LET stops == { k \in 1..Len(u) : u[k] \in {"?", "#"} }
    IN  IF stops = {} THEN u
        ELSE SubSeq(u, 1, (CHOOSE k \in stops : \A j \in stops : k <= j) - 1)

\* os.path.basename
Basename(path) == SubSeq(path, LastIndex(path, "/") + 1, Len(path))

\* os.path.splitext on a basename: the extension starts at the last dot,
\* unless only dots come before it.
Splitext(b) ==
    LET dot == LastIndex(b, ".")
    IN  IF dot > 0 /\ \E k \in 1..(dot - 1) : b[k] # "."
          THEN <<SubSeq(b, 1, dot - 1), SubSeq(b, dot, Len(b))>>
          ELSE <<b, <<>>>>

\* f"{prefix}_{sanitized_name}{ext}"
Filename(prefix, url) ==
    LET parts == Splitext(Basename(UrlPath(url)))
    IN  prefix \o <<"_">> \o sanitize_filename(parts[1]) \o parts[2]

Rep(c, n) == [k \in 1..n |-> c]

HeadChars == {"a", "%", ".", "-", "/"}

Heads == UNION { [1..k -> HeadChars] : k \in 0..MaxHead }

FillChars == {"Z", "~"}

FillLengths == {0, 99, 100}

Tails == { <<>>, <<".", "j", "p", "g">>, <<".">>, <<".", "j", "p", "g", "?", "v", ".", "1">> }

DownloadUrls ==
    { <<"/", "I", "/">> \o h \o Rep(c, n) \o t :
        h \in Heads, c \in FillChars, n \in FillLengths, t \in Tails }

Prefixes == { <<"i", "m", "g", "1">>, <<"p", "o", "p", "o", "v", "e", "r", "2">> }

downloadIdle == <<pc, browser, close_calls, page, crawlVars, details>>

\* requests.get(url, ...): an answer with a status, or an exception, which
\* is caught and makes download_image return None.
DownloadRequest ==
    /\ dl.state = "called"
    /\ \E r \in {"200", "404", "raise"} :
         dl' = [dl EXCEPT !.state = IF r = "200" THEN "answered" ELSE "none"]
    /\ UNCHANGED downloadIdle

\* Status 200: the file name is built and the body written; open() or
\* write() raising is caught as well.
DownloadWrite ==
    /\ dl.state = "answered"
    /\ LET basename == Basename(UrlPath(dl.url))
           name == Splitext(basename)[1]
           ext == Splitext(basename)[2]
       IN  \E ok \in BOOLEAN :
             dl' = [dl EXCEPT !.state = IF ok THEN "written" ELSE "none",
                              !.name = name,
                              !.ext = ext,
                              !.sanitized_name = sanitize_filename(name),
                              !.filename = Filename(dl.prefix, dl.url)]
    /\ UNCHANGED downloadIdle

InitDownload ==
    /\ pc = "download"
    /\ page = [table |-> [found |-> "absent", rows |-> <<>>], gallery |-> {}]
    /\ browser = "none"
    /\ close_calls = 0
    /\ data = EmptyData
    /\ sel = 1
    /\ img_counter = 1
    /\ downloaded_urls = {}
    /\ ran = {}
    /\ failed = {}
    /\ entered = {}
    /\ gate_count = [t \in {"json", "fallback"} |-> -1]
    /\ calls = {}
    /\ callers = {}
    /\ popover_ok = 0
    /\ json_str = <<>>
    /\ repeated = {}
    /\ details = NoDetails
    /\ \E u \in DownloadUrls, p \in Prefixes :
         dl = [state |-> "called", url |-> u, prefix |-> p, name |-> <<>>,
               ext |-> <<>>, sanitized_name |-> <<>>, filename |-> <<>>]

NextDownload == DownloadRequest \/ DownloadWrite

SpecDownload == InitDownload /\ [][NextDownload]_vars

\* The characters the claim allows in a sanitized name.
FilenameAlphabet == Lower \cup Upper \cup Digits \cup {"_", "-"}

\* C10: the file download_image writes is named prefix_s.ext, where name and
\* ext split the basename of the URL's path at its extension and s is name
\* with every character outside [A-Za-z0-9_-] replaced by "_" in place, cut
\* to 100 characters; s holds only characters of [A-Za-z0-9_-], and
\* sanitizing s again gives s.
C10_SanitizedFilename ==
    dl.state = "written" =>
        /\ dl.name \o dl.ext = Basename(UrlPath(dl.url))
        /\ dl.ext # <<>> => dl.ext[1] = "." /\ ~Contains(Tail(dl.ext), ".")
        /\ dl.filename = dl.prefix \o <<"_">> \o dl.sanitized_name \o dl.ext
        /\ Len(dl.sanitized_name) <= 100
        /\ Len(dl.sanitized_name) = IF Len(dl.name) > 100 THEN 100 ELSE Len(dl.name)
        /\ \A k \in 1..Len(dl.sanitized_name) :
             /\ dl.sanitized_name[k] \in FilenameAlphabet
             /\ dl.sanitized_name[k] =
                    IF dl.name[k] \in FilenameAlphabet THEN dl.name[k] ELSE "_"
        /\ sanitize_filename(dl.sanitized_name) = dl.sanitized_name

\* A file was written for a name of more than 100 characters with a
\* disallowed character among the first 100.
C10_Witness ==
    /\ dl.state = "written"
    /\ Len(dl.name) > 100
    /\ \E k \in 1..100 : dl.name[k] \notin FilenameAlphabet
    /\ dl.ext # <<>>

====
